---- MODULE Spec2Model ----
(***************************************************************************)
(* PatientLens (src/PatientsApp.py): a Streamlit script.  Every widget     *)
(* change reruns the whole script top to bottom; the widget values are the *)
(* session state, the five tables are loaded once, and everything else is  *)
(* recomputed by the run.  One action of this model is one user            *)
(* interaction followed by the full rerun of the script.                   *)
(*                                                                         *)
(* Text is a sequence of one-character strings, so that split, format and  *)
(* substring search are computed.  A date is <<month index, day>>, month 0 *)
(* being January 2020.  Dates carry no time of day.                        *)
(***************************************************************************)
EXTENDS Integers, Sequences, FiniteSets

VARIABLES clean_df, pattern_df, timeseries_df, snippets_df, demog_df,
          tie_order, widgets, filt, options, selected_patterns,
          fig, charts, snippet_out, info, error

tables == <<clean_df, pattern_df, timeseries_df, snippets_df, demog_df, tie_order>>
outputs == <<filt, options, selected_patterns, fig, charts, snippet_out, info, error>>
vars == <<clean_df, pattern_df, timeseries_df, snippets_df, demog_df,
          tie_order, widgets, filt, options, selected_patterns,
          fig, charts, snippet_out, info, error>>

(***************************************************************************)
(* Bounds of the model.                                                    *)
(***************************************************************************)
MaxYear == 2
MaxRecords == 3
SupportDen == 4

(***************************************************************************)
(* Text.                                                                   *)
(***************************************************************************)
Range(s) == {s[i] : i \in 1..Len(s)}

RECURSIVE SumSeq(_)
SumSeq(s) == IF s = <<>> THEN 0 ELSE Head(s) + SumSeq(Tail(s))

Digit(d) == <<"0", "1", "2", "3", "4", "5", "6", "7", "8", "9">>[d + 1]

\* str(n) of a non-negative integer
RECURSIVE Str(_)
Str(n) == IF n < 10 THEN <<Digit(n)>> ELSE Str(n \div 10) \o <<Digit(n % 10)>>

Lower(c) == CASE c = "A" -> "a" [] c = "B" -> "b" [] c = "C" -> "c" [] OTHER -> c

LowerStr(s) == [i \in 1..Len(s) |-> Lower(s[i])]

\* whether sep occurs in s at position i
OccursAt(s, sep, i) ==
    /\ i >= 1
    /\ i + Len(sep) - 1 <= Len(s)
    /\ \A j \in 1..Len(sep) : s[i + j - 1] = sep[j]

\* str.find, 1-based; 0 when sep does not occur
Find(s, sep) ==
    IF \E i \in 1..Len(s) : OccursAt(s, sep, i)
    THEN CHOOSE i \in 1..Len(s) :
            /\ OccursAt(s, sep, i)
            /\ \A j \in 1..(i - 1) : ~OccursAt(s, sep, j)
    ELSE 0

\* s.split(sep), sep non-empty
RECURSIVE Split(_, _)
Split(s, sep) ==
    LET i == Find(s, sep)
    IN IF i = 0 THEN <<s>>
       ELSE <<SubSeq(s, 1, i - 1)>> \o Split(SubSeq(s, i + Len(sep), Len(s)), sep)

OPT_SEP == <<" ", "-", " ">>
TERM_SEP == <<" ", "|", "|", " ">>

(***************************************************************************)
(* Dates.                                                                  *)
(***************************************************************************)
YearOf(m) == 2020 + (m \div 12)
MonthOfYear(m) == (m % 12) + 1

IsLeap(y) == (y % 4 = 0 /\ y % 100 # 0) \/ y % 400 = 0

DaysIn(m) ==
    LET k == MonthOfYear(m)
    IN IF k = 2 THEN (IF IsLeap(YearOf(m)) THEN 29 ELSE 28)
       ELSE IF k \in {4, 6, 9, 11} THEN 30 ELSE 31

MonthEnd(m) == <<m, DaysIn(m)>>
IsMonthEnd(d) == d[2] = DaysIn(d[1])

DateLE(a, b) == a[1] < b[1] \/ (a[1] = b[1] /\ a[2] <= b[2])
DateLT(a, b) == DateLE(a, b) /\ a # b

MinDate(S) == CHOOSE d \in S : \A e \in S : DateLE(d, e)
MaxDate(S) == CHOOSE d \in S : \A e \in S : DateLE(e, d)

(***************************************************************************)
(* pandas: groupby(pd.Grouper(key='pub_date', freq=freq)).sum().           *)
(* Every bin edge of these frequencies is the last day of a month, so an   *)
(* edge is kept as its month index.  Bins are closed and labelled on the   *)
(* right (pandas' defaults for month-end and year-end frequencies).        *)
(***************************************************************************)
FreqChoices == {"Month", "Trimester", "Semester", "Year"}

freq_map(choice) ==
    CASE choice = "Month" -> "M"
      [] choice = "Trimester" -> "3M"
      [] choice = "Semester" -> "6M"
      [] choice = "Year" -> "Y"

\* months between two consecutive edges
StepMonths(freq) ==
    CASE freq = "M" -> 1 [] freq = "3M" -> 3 [] freq = "6M" -> 6 [] freq = "Y" -> 12

\* SubOffset as it would be for bins closed on the left: the first edge is
\* the value rolled back to the offset
SubOffsetRollback(d, freq) ==
    IF freq = "Y"
    THEN IF MonthOfYear(d[1]) = 12 /\ IsMonthEnd(d) THEN d[1] ELSE (d[1] \div 12) * 12 - 1
    ELSE IF IsMonthEnd(d) THEN d[1] ELSE d[1] - 1

\* the edge d - freq: the month end (year end) n steps before d
SubOffset(d, freq) ==
    IF freq = "Y" THEN (d[1] \div 12) * 12 - 1
    ELSE d[1] - StepMonths(freq)

\* the edge d + freq: a date that is not on the offset first rolls forward to it
AddOffset(d, freq) ==
    IF freq = "Y"
    THEN IF MonthOfYear(d[1]) = 12 /\ IsMonthEnd(d) THEN d[1] + 12
         ELSE (d[1] \div 12) * 12 + 11
    ELSE IF IsMonthEnd(d) THEN d[1] + StepMonths(freq)
         ELSE d[1] + StepMonths(freq) - 1

\* date_range(start=first, end=last, freq=freq)
RECURSIVE DateRange(_, _, _)
DateRange(first, last, step) ==
    IF first > last THEN <<>> ELSE <<first>> \o DateRange(first + step, last, step)

\* _adjust_bin_edges: the last edge is dropped when the edge before it
\* (moved to the end of its day) already lies after the last value
AdjustBinEdges(binner, maxd) ==
    IF Len(binner) >= 2 /\ binner[Len(binner) - 1] >= maxd[1]
    THEN SubSeq(binner, 1, Len(binner) - 1)
    ELSE binner

\* _get_time_bins: the edges for a non-empty set of dates
TimeBins(dates, freq) ==
    LET first == SubOffset(MinDate(dates), freq)
        last == AddOffset(MaxDate(dates), freq)
    IN AdjustBinEdges(DateRange(first, last, StepMonths(freq)), MaxDate(dates))

Column(df, col) == [i \in 1..Len(df) |-> df[i][col]]

\* GroupBySum as it would be without the Grouper's empty bins (a groupby on
\* the period of each row): bins that hold no row are left out
GroupBySumNonEmpty(sub, freq) ==
    IF sub = <<>> THEN <<>>
    ELSE LET edges == TimeBins(Range(Column(sub, "pub_date")), freq)
             InBin(i, r) == edges[i] < r.pub_date[1] /\ r.pub_date[1] <= edges[i + 1]
             all == [i \in 1..(Len(edges) - 1) |->
                       [pub_date |-> MonthEnd(edges[i + 1]),
                        count |-> SumSeq(Column(SelectSeq(sub, LAMBDA r : InBin(i, r)), "count")),
                        rows |-> Len(SelectSeq(sub, LAMBDA r : InBin(i, r)))]]
             kept == SelectSeq(all, LAMBDA b : b.rows > 0)
         IN [i \in 1..Len(kept) |-> [pub_date |-> kept[i].pub_date, count |-> kept[i].count]]

\* one output row per bin, empty bins included (sum of nothing is 0); the
\* text column pattern_label is summed too, and plays no part downstream
GroupBySum(sub, freq) ==
    IF sub = <<>> THEN <<>>
    ELSE LET edges == TimeBins(Range(Column(sub, "pub_date")), freq)
             InBin(i, r) == edges[i] < r.pub_date[1] /\ r.pub_date[1] <= edges[i + 1]
         IN [i \in 1..(Len(edges) - 1) |->
                [pub_date |-> MonthEnd(edges[i + 1]),
                 count |-> SumSeq(Column(SelectSeq(sub, LAMBDA r : InBin(i, r)), "count"))]]

(***************************************************************************)
(* Lines 132-142: the time series of one selected pattern.                 *)
(***************************************************************************)
PatternSeries(ts, pat) == SelectSeq(ts, LAMBDA r : r.pattern_label = pat)

\* InRange with a strict comparison at the end of the range
InRangeEndExclusive(sub, start_date, end_date) ==
    SelectSeq(sub, LAMBDA r : DateLE(start_date, r.pub_date) /\ DateLT(r.pub_date, end_date))

InRange(sub, start_date, end_date) ==
    SelectSeq(sub, LAMBDA r : DateLE(start_date, r.pub_date) /\ DateLE(r.pub_date, end_date))

Trace(ts, pat, w) ==
    LET sub == GroupBySum(InRange(PatternSeries(ts, pat), w.start_date, w.end_date),
                          freq_map(w.freq_choice))
    IN [pattern |-> pat, freq_choice |-> w.freq_choice, points |-> sub]

(***************************************************************************)
(* Left column, lines 49-73.  A pattern row is a record; support is held   *)
(* as the numerator of a fraction over SupportDen; index is the row's      *)
(* DataFrame index.                                                        *)
(***************************************************************************)
\* Series.astype(int) of a non-negative product: the fraction is cut off
AsTypeInt(num, den) == num \div den

\* lines 49-50
DeriveSupportCount(pdf, clean) ==
    IF pdf.has_support_count THEN pdf.rows
    ELSE [i \in 1..Len(pdf.rows) |->
            [itemsets |-> pdf.rows[i].itemsets,
             pattern_label |-> pdf.rows[i].pattern_label,
             support |-> pdf.rows[i].support,
             len |-> pdf.rows[i].len,
             index |-> pdf.rows[i].index,
             support_count |-> AsTypeInt(pdf.rows[i].support * Len(clean), SupportDen)]]

\* lines 59-62
FilterRows(rows, min_len, min_freq) ==
    SelectSeq(rows, LAMBDA r : r.len >= min_len /\ r.support_count >= min_freq)

\* The order sort_values puts two rows in.  kind defaults to 'quicksort',
\* which is not stable: the order of rows with equal keys is whatever the
\* build's sort produces, here the ranking tie.
Before(a, b, by, ascending, tie) ==
    \/ IF ascending THEN a[by] < b[by] ELSE a[by] > b[by]
    \/ a[by] = b[by] /\ tie[a.index] < tie[b.index]

RECURSIVE Insert(_, _, _, _, _)
Insert(r, s, by, ascending, tie) ==
    IF s = <<>> THEN <<r>>
    ELSE IF Before(r, Head(s), by, ascending, tie) THEN <<r>> \o s
    ELSE <<Head(s)>> \o Insert(r, Tail(s), by, ascending, tie)

RECURSIVE SortValues(_, _, _, _)
SortValues(rows, by, ascending, tie) ==
    IF rows = <<>> THEN <<>>
    ELSE Insert(Head(rows), SortValues(Tail(rows), by, ascending, tie), by, ascending, tie)

\* reset_index(drop=True)
ResetIndex(rows) == [i \in 1..Len(rows) |-> [rows[i] EXCEPT !.index = i]]

\* line 64
Filt(pdf, clean, w, tie) ==
    ResetIndex(SortValues(FilterRows(DeriveSupportCount(pdf, clean), w.min_len, w.min_freq),
                          w.order_by, w.ascending, tie))

\* line 71
Option(r) == r.pattern_label \o OPT_SEP \o Str(r.support_count)
Options(f) == [i \in 1..Len(f) |-> Option(f[i])]

\* options[:1]
DefaultSelection(opts) == SubSeq(opts, 1, IF Len(opts) >= 1 THEN 1 ELSE 0)

MAX_SELECTIONS == 5

\* line 72: the multiselect keeps the user's choice while its options are
\* the ones it was made from, and falls back to its default otherwise
Selected(w, opts) ==
    IF w.selected_from = opts THEN w.selected ELSE DefaultSelection(opts)

\* line 73
SelectedPatterns(selected) == [i \in 1..Len(selected) |-> Split(selected[i], OPT_SEP)[1]]

(***************************************************************************)
(* Demographic charts, lines 144-211.                                      *)
(***************************************************************************)
\* Series.unique(): the values in order of first appearance
RECURSIVE Unique(_)
Unique(s) ==
    IF s = <<>> THEN <<>>
    ELSE LET u == Unique(SubSeq(s, 1, Len(s) - 1))
         IN IF s[Len(s)] \in Range(u) THEN u ELSE Append(u, s[Len(s)])

SubDemog(demog, pat) == SelectSeq(demog, LAMBDA r : r.pattern_label = pat)

CountWhere(df, col, v) == SumSeq(Column(SelectSeq(df, LAMBDA r : r[col] = v), "count"))

\* lines 145-154
AgeChart(demog, pat) ==
    LET sub == SubDemog(demog, pat)
        bins == Unique(Column(sub, "age_bin"))
    IN [kind |-> "age", pattern |-> pat,
        bars |-> [i \in 1..Len(bins) |->
                    [x |-> bins[i], y |-> CountWhere(sub, "age_bin", bins[i]),
                     name |-> bins[i]]]]

\* lines 157-176
GenderChart(demog, pat) ==
    LET sub == SubDemog(demog, pat)
        gs == Unique(Column(sub, "gender"))
    IN [kind |-> "gender", pattern |-> pat,
        bars |-> [i \in 1..Len(gs) |->
                    [x |-> gs[i], y |-> CountWhere(sub, "gender", gs[i]),
                     name |-> IF gs[i] = "M" THEN "Male" ELSE "Female"]]]

\* the age bins as groupby('age_bin') orders its groups: by the text
AgeBinsSorted == <<"0-17", "18-39", "40-59", "60-79", "80+", "<1", "unknown">>

GroupByAge(df) ==
    LET present == SelectSeq(AgeBinsSorted, LAMBDA a : a \in Range(Column(df, "age_bin")))
    IN [i \in 1..Len(present) |->
            [age_bin |-> present[i], count |-> CountWhere(df, "age_bin", present[i])]]

MaxOf(S) == CHOOSE x \in S : \A y \in S : y <= x

\* lines 179-211; the y range's upper end max_val*1.1 is kept in tenths
AgeGenderChart(demog, pat) ==
    LET sub == SubDemog(demog, pat)
        male_data == GroupByAge(SelectSeq(sub, LAMBDA r : r.gender = "M"))
        female_data == GroupByAge(SelectSeq(sub, LAMBDA r : r.gender = "F"))
        fmax == IF female_data # <<>> THEN MaxOf(Range(Column(female_data, "count"))) ELSE 0
        mmax == IF male_data # <<>> THEN MaxOf(Range(Column(male_data, "count"))) ELSE 0
        max_val == IF fmax >= mmax THEN fmax ELSE mmax
    IN [kind |-> "age_gender", pattern |-> pat,
        male |-> male_data, female |-> female_data, y_upper_tenths |-> max_val * 11]

(***************************************************************************)
(* The per-pattern loop, lines 132-211.  The loop's locals are the figure  *)
(* and the three chart names, which are unbound until a pattern with       *)
(* time-series rows assigns them.                                          *)
(***************************************************************************)
Unbound == [kind |-> "unbound"]

LoopStart == [fig |-> <<>>, fig_age |-> Unbound, fig_gender |-> Unbound,
              fig_age_gender |-> Unbound]

LoopBody(st, pat, ts, demog, w) ==
    IF PatternSeries(ts, pat) = <<>> THEN st
    ELSE [fig |-> Append(st.fig, Trace(ts, pat, w)),
          fig_age |-> IF w.split_age /\ ~w.split_gender
                      THEN AgeChart(demog, pat) ELSE st.fig_age,
          fig_gender |-> IF w.split_gender /\ ~w.split_age
                         THEN GenderChart(demog, pat) ELSE st.fig_gender,
          fig_age_gender |-> IF w.split_age /\ w.split_gender
                             THEN AgeGenderChart(demog, pat) ELSE st.fig_age_gender]

RECURSIVE Loop(_, _, _, _)
Loop(pats, ts, demog, w) ==
    IF pats = <<>> THEN LoopStart
    ELSE LoopBody(Loop(SubSeq(pats, 1, Len(pats) - 1), ts, demog, w),
                  pats[Len(pats)], ts, demog, w)

\* lines 222-227: the chart handed to st.plotly_chart after the loop
SplitChart(st, w) ==
    IF w.split_age /\ ~w.split_gender THEN <<st.fig_age>>
    ELSE IF w.split_gender /\ ~w.split_age THEN <<st.fig_gender>>
    ELSE IF w.split_age /\ w.split_gender THEN <<st.fig_age_gender>>
    ELSE <<>>

(***************************************************************************)
(* Text snippets, lines 231-240.                                           *)
(***************************************************************************)
\* the first token of toks that matches s at i, ignoring case; 0 if none
FirstMatch(s, toks, i) ==
    LET Hit(k) == Len(toks[k]) > 0 /\ OccursAt(LowerStr(s), LowerStr(toks[k]), i)
    IN IF \E k \in 1..Len(toks) : Hit(k)
       THEN CHOOSE k \in 1..Len(toks) : Hit(k) /\ \A j \in 1..(k - 1) : ~Hit(j)
       ELSE 0

\* re.sub('(t1|t2|...)', '**\1**', snip, flags=IGNORECASE), from position i
RECURSIVE Highlight(_, _, _)
Highlight(s, toks, i) ==
    IF i > Len(s) THEN <<>>
    ELSE LET k == FirstMatch(s, toks, i)
         IN IF k = 0 THEN <<s[i]>> \o Highlight(s, toks, i + 1)
            ELSE <<"*", "*">> \o SubSeq(s, i, i + Len(toks[k]) - 1) \o <<"*", "*">>
                 \o Highlight(s, toks, i + Len(toks[k]))

SnippetBlock(snips, pat) ==
    LET snippets_sub == SelectSeq(snips, LAMBDA r : r.pattern_label = pat)
    IN IF snippets_sub # <<>>
       THEN [pattern |-> pat, no_snippets |-> FALSE,
             items |-> [i \in 1..Len(snippets_sub[1].snippets) |->
                          Highlight(snippets_sub[1].snippets[i], Split(pat, TERM_SEP), 1)]]
       ELSE [pattern |-> pat, no_snippets |-> TRUE, items |-> <<>>]

SnippetSection(snips, pats) == [i \in 1..Len(pats) |-> SnippetBlock(snips, pats[i])]

(***************************************************************************)
(* One run of the script.                                                  *)
(***************************************************************************)
\* lines 106-108, 115-117: the date pickers' defaults
MinPubDate(clean) == MinDate(Range(Column(clean, "pub_date")))
MaxPubDate(clean) == MaxDate(Range(Column(clean, "pub_date")))

\* the widgets of the right column as they are first drawn (lines 90-124)
RightDefaults(w, clean) ==
    [w EXCEPT !.freq_choice = "Month",
              !.start_date = MinPubDate(clean),
              !.end_date = MaxPubDate(clean),
              !.split_age = FALSE,
              !.split_gender = FALSE]

\* lines 53-56 and 72 with nothing chosen yet
DefaultWidgets(clean) ==
    RightDefaults([min_len |-> 1, min_freq |-> 10, order_by |-> "support_count",
                   ascending |-> FALSE, selected |-> <<>>, selected_from |-> <<>>,
                   freq_choice |-> "Month", start_date |-> <<0, 1>>, end_date |-> <<0, 1>>,
                   split_age |-> FALSE, split_gender |-> FALSE], clean)

\* The whole script for widget values w.  A widget that a run does not draw
\* loses its value: with nothing selected the right column's widgets go
\* back to their defaults.  A chart name still unbound at lines 222-227
\* raises NameError and ends the run before the snippets.
Script(w, clean, pdf, ts, snips, demog, tie) ==
    LET f == Filt(pdf, clean, w, tie)
        opts == Options(f)
        sel == Selected(w, opts)
        pats == SelectedPatterns(sel)
        w1 == [w EXCEPT !.selected = sel, !.selected_from = opts]
        w2 == IF pats = <<>> THEN RightDefaults(w1, clean) ELSE w1
        st == Loop(pats, ts, demog, w2)
        raised == pats # <<>> /\ SplitChart(st, w2) = <<Unbound>>
    IN [widgets |-> w2,
        filt |-> f,
        options |-> opts,
        selected_patterns |-> pats,
        fig |-> IF pats = <<>> THEN <<>> ELSE st.fig,
        charts |-> IF pats = <<>> \/ raised THEN <<>> ELSE SplitChart(st, w2),
        snippet_out |-> IF raised THEN <<>> ELSE SnippetSection(snips, pats),
        info |-> pats = <<>>,
        error |-> IF raised THEN "NameError" ELSE "none"]

Shown(r) ==
    /\ widgets = r.widgets
    /\ filt = r.filt
    /\ options = r.options
    /\ selected_patterns = r.selected_patterns
    /\ fig = r.fig
    /\ charts = r.charts
    /\ snippet_out = r.snippet_out
    /\ info = r.info
    /\ error = r.error

\* a widget change: the script reruns over the same tables
Rerun(w) ==
    \E r \in {Script(w, clean_df, pattern_df, timeseries_df, snippets_df, demog_df, tie_order)} :
       /\ widgets' = r.widgets
       /\ filt' = r.filt
       /\ options' = r.options
       /\ selected_patterns' = r.selected_patterns
       /\ fig' = r.fig
       /\ charts' = r.charts
       /\ snippet_out' = r.snippet_out
       /\ info' = r.info
       /\ error' = r.error
       /\ UNCHANGED tables

(***************************************************************************)
(* The user's interactions.                                                *)
(***************************************************************************)
MinFreqChoices == {1, 2, 10}

\* line 53
SetMinLen ==
    \E v \in 1..5 : v # widgets.min_len /\ Rerun([widgets EXCEPT !.min_len = v])

\* line 54
SetMinFreq ==
    \E v \in MinFreqChoices : v # widgets.min_freq /\ Rerun([widgets EXCEPT !.min_freq = v])

\* line 55
SetOrderBy ==
    \E v \in {"support_count", "len"} :
        v # widgets.order_by /\ Rerun([widgets EXCEPT !.order_by = v])

\* line 56
SetAscending == Rerun([widgets EXCEPT !.ascending = ~widgets.ascending])

\* line 72: one more option is picked, up to max_selections
AddSelection ==
    \E o \in Range(options) :
        /\ o \notin Range(widgets.selected)
        /\ Len(widgets.selected) < MAX_SELECTIONS
        /\ Rerun([widgets EXCEPT !.selected = Append(widgets.selected, o)])

\* line 72: a picked option is removed
RemoveSelection ==
    \E o \in Range(widgets.selected) :
        Rerun([widgets EXCEPT !.selected = SelectSeq(widgets.selected, LAMBDA x : x # o)])

\* the right column's widgets are drawn only while something is selected
RightColumnDrawn == selected_patterns # <<>>

\* line 90
SetFreq ==
    /\ RightColumnDrawn
    /\ \E c \in FreqChoices :
          c # widgets.freq_choice /\ Rerun([widgets EXCEPT !.freq_choice = c])

\* the dates the model draws from, two per year of 2020..2020+MaxYear:
\* 1 February (even years) or the last day of February (odd years), and
\* 31 December; so a day inside a month, a month end, and a year end
DatePool ==
    UNION {{IF y % 2 = 0 THEN <<12 * y + 1, 1>> ELSE MonthEnd(12 * y + 1),
            MonthEnd(12 * y + 11)} : y \in 0..MaxYear}

\* line 115
SetStart ==
    /\ RightColumnDrawn
    /\ \E d \in DatePool :
          d # widgets.start_date /\ Rerun([widgets EXCEPT !.start_date = d])

\* line 117
SetEnd ==
    /\ RightColumnDrawn
    /\ \E d \in DatePool :
          d # widgets.end_date /\ Rerun([widgets EXCEPT !.end_date = d])

\* line 123
ToggleAge ==
    /\ RightColumnDrawn
    /\ Rerun([widgets EXCEPT !.split_age = ~widgets.split_age])

\* line 124
ToggleGender ==
    /\ RightColumnDrawn
    /\ Rerun([widgets EXCEPT !.split_gender = ~widgets.split_gender])

(***************************************************************************)
(* The loaded tables (load_data, lines 21-30) and the first run.           *)
(***************************************************************************)
LabelA == <<"a">>
LabelB == <<"B">>
LabelAB == <<"a", " ", "|", "|", " ", "B">>
LabelDash == <<"a", " ", "-", " ", "B">>

\* a row of patterns.parquet without the support_count column
PatternRow(i, label, support) ==
    [itemsets |-> Split(label, TERM_SEP), pattern_label |-> label,
     support |-> support, len |-> Len(Split(label, TERM_SEP)), index |-> i]

\* a row of patterns.parquet with the support_count column
PatternRowCounted(i, label, support, sc) ==
    [itemsets |-> Split(label, TERM_SEP), pattern_label |-> label,
     support |-> support, len |-> Len(Split(label, TERM_SEP)), index |-> i,
     support_count |-> sc]

\* n clean records published between February 2020 and the last December
CleanRecords(n) ==
    [i \in 1..n |-> [pub_date |-> IF i = 1 THEN <<1, 1>> ELSE MonthEnd(12 * MaxYear + 11)]]

TieOrders(n) ==
    {f \in [1..n -> 1..n] : \A i, j \in 1..n : f[i] = f[j] => i = j}

TsRow(label, d, c) == [pattern_label |-> label, pub_date |-> d, count |-> c]
DemogRow(label, a, g, c) == [pattern_label |-> label, age_bin |-> a, gender |-> g, count |-> c]
SnippetRow(label, ss) == [pattern_label |-> label, snippets |-> ss]

Snippet1 == <<"A", "b", "a">>

\* the state after the first run of the script over the loaded tables
Loaded(clean, pdf, ts, snips, demog, tie) ==
    /\ clean_df = clean
    /\ pattern_df = pdf
    /\ timeseries_df = ts
    /\ snippets_df = snips
    /\ demog_df = demog
    /\ tie_order = tie
    /\ \E r \in {Script(DefaultWidgets(clean), clean, pdf, ts, snips, demog, tie)} : Shown(r)

(***************************************************************************)
(* SpecFilter: pattern tables of three rows, with and without the          *)
(* support_count column, under the left column's widgets.                  *)
(***************************************************************************)
FilterLabels == <<LabelA, LabelAB, LabelDash>>
SupportPool == {1, 3}
CountPool == {10, 12}

PatternTables ==
    {[has_support_count |-> FALSE,
      rows |-> [i \in 1..3 |-> PatternRow(i, FilterLabels[i], sup[i])]] :
        sup \in [1..3 -> SupportPool]}
    \cup
    {[has_support_count |-> TRUE,
      rows |-> [i \in 1..3 |-> PatternRowCounted(i, FilterLabels[i], 2, sc[i])]] :
        sc \in [1..3 -> CountPool]}

InitFilter ==
    \E n \in 2..MaxRecords, pdf \in PatternTables, tie \in TieOrders(3) :
        Loaded(CleanRecords(n), pdf,
               <<TsRow(LabelA, <<1, 1>>, 1)>>,
               <<SnippetRow(LabelA, <<Snippet1>>)>>,
               <<DemogRow(LabelA, "0-17", "M", 1)>>,
               tie)

NextFilter ==
    \/ SetMinLen
    \/ SetMinFreq
    \/ SetOrderBy
    \/ SetAscending
    \/ AddSelection
    \/ RemoveSelection

SpecFilter == InitFilter /\ [][NextFilter]_vars

(***************************************************************************)
(* SpecSeries: the time series of the selected pattern, of up to two       *)
(* entries, under the frequency and the date pickers.                      *)
(***************************************************************************)
CountChoices == {1, 2}

SeriesPool ==
    {<<>>}
    \cup {<<TsRow(LabelA, d, c)>> : d \in DatePool, c \in CountChoices}
    \cup {<<TsRow(LabelA, d[1], c[1]), TsRow(LabelA, d[2], c[2])>> :
            d \in {x \in DatePool \X DatePool : DateLT(x[1], x[2])},
            c \in CountChoices \X CountChoices}

TwoPatterns ==
    [has_support_count |-> TRUE,
     rows |-> <<PatternRowCounted(1, LabelA, 3, 12), PatternRowCounted(2, LabelB, 2, 10)>>]

InitSeries ==
    \E series \in SeriesPool :
        Loaded(CleanRecords(2), TwoPatterns,
               <<TsRow(LabelB, <<1, 1>>, 1)>> \o series,
               <<SnippetRow(LabelA, <<Snippet1>>)>>,
               <<DemogRow(LabelA, "0-17", "M", 1)>>,
               [i \in 1..2 |-> i])

NextSeries ==
    \/ SetFreq
    \/ SetStart
    \/ SetEnd

SpecSeries == InitSeries /\ [][NextSeries]_vars

(***************************************************************************)
(* SpecRender: two patterns, each with or without time-series rows,        *)
(* demographic rows and snippets, under the selection and the two split    *)
(* toggles.                                                                *)
(***************************************************************************)
TsPool(label) == {<<>>, <<TsRow(label, <<1, 1>>, 1)>>}

DemogPool(label) ==
    {<<>>,
     <<DemogRow(label, "18-39", "M", 2), DemogRow(label, "0-17", "F", 1),
       DemogRow(label, "18-39", "F", 1)>>}

SnippetPool(label) ==
    {<<>>, <<SnippetRow(label, <<>>)>>, <<SnippetRow(label, <<Snippet1>>)>>}

InitRender ==
    \E ta \in TsPool(LabelA), tb \in TsPool(LabelB),
       da \in DemogPool(LabelA), db \in DemogPool(LabelB),
       sa \in SnippetPool(LabelA), sb \in SnippetPool(LabelB) :
        Loaded(CleanRecords(2), TwoPatterns, ta \o tb, sa \o sb, da \o db,
               [i \in 1..2 |-> i])

NextRender ==
    \/ AddSelection
    \/ RemoveSelection
    \/ ToggleAge
    \/ ToggleGender

SpecRender == InitRender /\ [][NextRender]_vars

(***************************************************************************)
(* What the properties below are stated in: the table the run filters,     *)
(* the entries of a pattern inside the picked date range, and the months   *)
(* a bucket covers, each written out on the state and not through the      *)
(* operators of the run.                                                   *)
(***************************************************************************)
\* months per period of a granularity (the spec's Month, Trimester(3 months),
\* Semester(6 months), Year)
PeriodMonths(choice) ==
    CASE choice = "Month" -> 1 [] choice = "Trimester" -> 3
      [] choice = "Semester" -> 6 [] choice = "Year" -> 12

\* indices of the time-series entries of pat inside [start_date, end_date]
EntriesInRange(pat) ==
    {i \in 1..Len(timeseries_df) :
        /\ timeseries_df[i].pattern_label = pat
        /\ DateLE(widgets.start_date, timeseries_df[i].pub_date)
        /\ DateLE(timeseries_df[i].pub_date, widgets.end_date)}

EntriesOf(pat) == {i \in 1..Len(timeseries_df) : timeseries_df[i].pattern_label = pat}

RECURSIVE TotalCount(_)
TotalCount(S) ==
    IF S = {} THEN 0
    ELSE LET i == CHOOSE x \in S : TRUE
         IN timeseries_df[i].count + TotalCount(S \ {i})

\* the bucket labelled by the date label covers the n months that end with
\* the label's month
FirstMonthOf(label, choice) == label[1] - PeriodMonths(choice) + 1

EntriesInBucket(pat, label, choice) ==
    {i \in EntriesInRange(pat) :
        /\ FirstMonthOf(label, choice) <= timeseries_df[i].pub_date[1]
        /\ timeseries_df[i].pub_date[1] <= label[1]}

PointTotal(points) == SumSeq([i \in 1..Len(points) |-> points[i].count])

(***************************************************************************)
(* C6.  Conservation of total: every selected pattern that has time-series *)
(* rows gets one trace, and the counts of a trace's buckets add up to the  *)
(* counts of that pattern's entries with start <= pub_date <= end, both    *)
(* ends included.                                                          *)
(***************************************************************************)
C6_ConservationOfTotal ==
    /\ \A i \in 1..Len(fig) :
          PointTotal(fig[i].points) = TotalCount(EntriesInRange(fig[i].pattern))
    /\ \A k \in 1..Len(selected_patterns) :
          EntriesOf(selected_patterns[k]) # {} =>
             \E i \in 1..Len(fig) : fig[i].pattern = selected_patterns[k]

\* a trace that counts an entry dated on an end of the range and leaves out
\* an entry of the same pattern that lies outside the range
C6_Witness ==
    \E i \in 1..Len(fig) :
       /\ PointTotal(fig[i].points) > 0
       /\ EntriesOf(fig[i].pattern) \ EntriesInRange(fig[i].pattern) # {}
       /\ \E e \in EntriesInRange(fig[i].pattern) :
             timeseries_df[e].pub_date \in {widgets.start_date, widgets.end_date}

(***************************************************************************)
(* C3, as claimed.  Omission of empty periods: a trace holds a pair only   *)
(* for periods that hold at least one entry of the pattern inside the date *)
(* range.                                                                  *)
(***************************************************************************)
C3_EmptyPeriodsOmitted ==
    \A i \in 1..Len(fig) : \A k \in 1..Len(fig[i].points) :
        EntriesInBucket(fig[i].pattern, fig[i].points[k].pub_date, fig[i].freq_choice) # {}

(***************************************************************************)
(* C3, amended.  A trace holds one pair for every period from the period   *)
(* of the pattern's earliest entry in range through the period of its      *)
(* latest one, consecutively: a period in between that holds no entry is   *)
(* there with count 0, and no period before the first or after the last    *)
(* occupied one is there; with no entry in range the trace is empty.       *)
(***************************************************************************)
C3_EmptyPeriodsZeroFilled ==
    \A i \in 1..Len(fig) :
        LET pts == fig[i].points
            pat == fig[i].pattern
            ch == fig[i].freq_choice
        IN /\ (pts = <<>>) <=> (EntriesInRange(pat) = {})
           /\ pts # <<>> =>
                /\ EntriesInBucket(pat, pts[1].pub_date, ch) # {}
                /\ EntriesInBucket(pat, pts[Len(pts)].pub_date, ch) # {}
           /\ \A k \in 1..(Len(pts) - 1) :
                pts[k + 1].pub_date[1] = pts[k].pub_date[1] + PeriodMonths(ch)
           /\ \A k \in 1..Len(pts) :
                EntriesInBucket(pat, pts[k].pub_date, ch) = {} => pts[k].count = 0

\* a period with no entry, emitted with count 0 between two occupied ones
C3_Witness ==
    \E i \in 1..Len(fig) : \E k \in 2..(Len(fig[i].points) - 1) :
       /\ EntriesInBucket(fig[i].pattern, fig[i].points[k].pub_date, fig[i].freq_choice) = {}
       /\ fig[i].points[k].count = 0
       /\ fig[i].points[1].count > 0
       /\ fig[i].points[Len(fig[i].points)].count > 0

(***************************************************************************)
(* C7, as claimed.  Bucket containment: the date that labels a bucket and  *)
(* the whole interval the bucket covers lie inside [start, end], and the   *)
(* buckets of one pattern do not overlap.                                  *)
(***************************************************************************)
C7_BucketsInsideRange ==
    \A i \in 1..Len(fig) :
        LET pts == fig[i].points
            ch == fig[i].freq_choice
        IN /\ \A k \in 1..Len(pts) :
                /\ DateLE(widgets.start_date, pts[k].pub_date)
                /\ DateLE(pts[k].pub_date, widgets.end_date)
                /\ DateLE(widgets.start_date, <<FirstMonthOf(pts[k].pub_date, ch), 1>>)
           /\ \A k \in 1..(Len(pts) - 1) :
                pts[k].pub_date[1] < FirstMonthOf(pts[k + 1].pub_date, ch)

(***************************************************************************)
(* C7, amended.  Every bucket is a period of 1, 3, 6 or 12 whole months    *)
(* (by granularity) labelled by its last day, the last day of a month and, *)
(* for Year, 31 December; the first bucket ends with the month (the year)  *)
(* of the pattern's earliest entry in range; buckets of one pattern do not *)
(* overlap, each entry in range lying in exactly one.  A bucket overlaps [start, end] but need not lie inside it: it *)
(* ends on or after start and begins on or before end, while its label may *)
(* be later than end and its first day earlier than start.                 *)
(***************************************************************************)
C7_BucketsMonthAnchored ==
    \A i \in 1..Len(fig) :
        LET pts == fig[i].points
            pat == fig[i].pattern
            ch == fig[i].freq_choice
            first == CHOOSE e \in EntriesInRange(pat) :
                        \A x \in EntriesInRange(pat) :
                            DateLE(timeseries_df[e].pub_date, timeseries_df[x].pub_date)
        IN /\ \A k \in 1..Len(pts) :
                /\ IsMonthEnd(pts[k].pub_date)
                /\ ch = "Year" => MonthOfYear(pts[k].pub_date[1]) = 12
                /\ DateLE(widgets.start_date, pts[k].pub_date)
                /\ DateLE(<<FirstMonthOf(pts[k].pub_date, ch), 1>>, widgets.end_date)
           /\ \A k \in 1..(Len(pts) - 1) :
                pts[k].pub_date[1] < FirstMonthOf(pts[k + 1].pub_date, ch)
           /\ \A e \in EntriesInRange(pat) :
                Cardinality({k \in 1..Len(pts) :
                                e \in EntriesInBucket(pat, pts[k].pub_date, ch)}) = 1
           /\ pts # <<>> =>
                /\ EntriesInRange(pat) # {}
                /\ IF ch = "Year"
                   THEN YearOf(pts[1].pub_date[1]) = YearOf(timeseries_df[first].pub_date[1])
                   ELSE pts[1].pub_date[1] = timeseries_df[first].pub_date[1]

\* a trace with a bucket labelled after end and a bucket that begins before start
C7_Witness ==
    \E i \in 1..Len(fig) :
       /\ \E k \in 1..Len(fig[i].points) :
             DateLT(widgets.end_date, fig[i].points[k].pub_date)
       /\ \E k \in 1..Len(fig[i].points) :
             DateLT(<<FirstMonthOf(fig[i].points[k].pub_date, fig[i].freq_choice), 1>>,
                    widgets.start_date)

(***************************************************************************)
(* The table as the run filters it: the loaded rows, with support_count    *)
(* read from the table when it has the column.                             *)
(***************************************************************************)
\* round half to even of num/den, num >= 0
RoundDiv(num, den) ==
    LET q == num \div den
        r == num % den
    IN IF 2 * r < den THEN q
       ELSE IF 2 * r > den THEN q + 1
       ELSE IF q % 2 = 0 THEN q ELSE q + 1

\* the loaded row a filtered row comes from (labels are unique in a table)
SourceIndex(label) ==
    CHOOSE i \in 1..Len(pattern_df.rows) : pattern_df.rows[i].pattern_label = label

FiltLabels == {filt[i].pattern_label : i \in 1..Len(filt)}

\* str.lower() in term contains str.lower() of the search text
Contains(term, search) ==
    \E i \in 1..Len(term) : OccursAt(LowerStr(term), LowerStr(search), i)

SearchTerms == {<<>>, <<"b">>}

(***************************************************************************)
(* C1.  Pattern Filter: for every search term, the filtered list holds     *)
(* exactly the rows with len >= L, support_count >= F and, when the search *)
(* term is not empty, a term of itemsets that contains it, ignoring case.  *)
(***************************************************************************)
C1_FilterHonoursSearch ==
    \A search \in SearchTerms :
        /\ \A i \in 1..Len(filt) :
              /\ filt[i].len >= widgets.min_len
              /\ filt[i].support_count >= widgets.min_freq
              /\ search # <<>> =>
                    \E t \in Range(filt[i].itemsets) : Contains(t, search)
        /\ \A j \in 1..Len(pattern_df.rows) :
              LET r == pattern_df.rows[j]
                  sc == IF pattern_df.has_support_count THEN r.support_count
                        ELSE (r.support * Len(clean_df)) \div SupportDen
              IN (/\ r.len >= widgets.min_len
                  /\ sc >= widgets.min_freq
                  /\ search # <<>> => \E t \in Range(r.itemsets) : Contains(t, search))
                 => r.pattern_label \in FiltLabels

(***************************************************************************)
(* C4.  Sort stability: two rows of the filtered list with equal sort key  *)
(* stand in the order they have in the pattern table.                      *)
(***************************************************************************)
C4_SortStable ==
    \A i, j \in 1..Len(filt) :
        (i < j /\ filt[i][widgets.order_by] = filt[j][widgets.order_by])
            => SourceIndex(filt[i].pattern_label) < SourceIndex(filt[j].pattern_label)

(***************************************************************************)
(* C5.  support_count derivation: for a table without the column, every    *)
(* row the run shows has support_count = round(support * number of clean   *)
(* records); with the column present the stored values are shown           *)
(* unchanged.                                                              *)
(***************************************************************************)
C5_SupportCountRounded ==
    \A i \in 1..Len(filt) :
        LET r == pattern_df.rows[SourceIndex(filt[i].pattern_label)]
        IN IF pattern_df.has_support_count
           THEN filt[i].support_count = r.support_count
           ELSE filt[i].support_count = RoundDiv(r.support * Len(clean_df), SupportDen)

(***************************************************************************)
(* C8.  Pattern Selector output: selected_patterns holds, in selection     *)
(* order, the pattern_label of each selected row of the filtered list,     *)
(* whatever the label's text; by default the top row alone is selected.    *)
(***************************************************************************)
C8_SelectedAreLabels ==
    /\ Len(selected_patterns) = Len(widgets.selected)
    /\ Len(selected_patterns) <= MAX_SELECTIONS
    /\ \A i \in 1..Len(selected_patterns) :
          \E j \in 1..Len(filt) :
             /\ options[j] = widgets.selected[i]
             /\ selected_patterns[i] = filt[j].pattern_label

(***************************************************************************)
(* C2.  No error on an empty subset: a selected pattern without            *)
(* time-series rows adds no series, and the run ends without an exception  *)
(* under every setting of the two split toggles.                           *)
(***************************************************************************)
C2_NoErrorOnEmptySubset ==
    /\ \A k \in 1..Len(selected_patterns) :
          EntriesOf(selected_patterns[k]) = {} =>
             \A i \in 1..Len(fig) : fig[i].pattern # selected_patterns[k]
    /\ error = "none"

(***************************************************************************)
(* C9.  Demographic split per pattern: with exactly one split enabled, a   *)
(* run that completes shows for every selected pattern a chart of that     *)
(* pattern, with one bar per value present in the pattern's demographic    *)
(* rows holding the sum of the pattern's counts for that value.            *)
(***************************************************************************)
DemogTotal(pat, col, v) ==
    LET S == {i \in 1..Len(demog_df) :
                demog_df[i].pattern_label = pat /\ demog_df[i][col] = v}
        count[T \in SUBSET S] ==
            IF T = {} THEN 0
            ELSE LET i == CHOOSE x \in T : TRUE
                 IN demog_df[i].count + count[T \ {i}]
    IN count[S]

DemogValues(pat, col) ==
    {demog_df[i][col] : i \in {x \in 1..Len(demog_df) : demog_df[x].pattern_label = pat}}

\* the chart is pat's: its bars are the values of pat's rows with pat's sums
ChartShows(chart, pat, col) ==
    /\ chart.pattern = pat
    /\ {chart.bars[b].x : b \in 1..Len(chart.bars)} = DemogValues(pat, col)
    /\ \A b \in 1..Len(chart.bars) : chart.bars[b].y = DemogTotal(pat, col, chart.bars[b].x)

C9_SplitChartPerPattern ==
    (error = "none" /\ widgets.split_age # widgets.split_gender) =>
        LET col == IF widgets.split_age THEN "age_bin" ELSE "gender"
        IN /\ \A k \in 1..Len(selected_patterns) :
                DemogValues(selected_patterns[k], col) # {} =>
                    \E c \in 1..Len(charts) : ChartShows(charts[c], selected_patterns[k], col)
           /\ \A c \in 1..Len(charts) : ChartShows(charts[c], charts[c].pattern, col)

(***************************************************************************)
(* C10.  Snippets, empty case: in a run that reaches the snippet section,  *)
(* a selected pattern gets the "no snippets available" signal exactly when *)
(* it has no snippet, be it for want of a row in the snippets table or     *)
(* because its row holds an empty sequence.                                *)
(***************************************************************************)
SnippetCount(pat) ==
    IF \E i \in 1..Len(snippets_df) : snippets_df[i].pattern_label = pat
    THEN Len(snippets_df[CHOOSE i \in 1..Len(snippets_df) :
                            /\ snippets_df[i].pattern_label = pat
                            /\ \A j \in 1..(i - 1) : snippets_df[j].pattern_label # pat].snippets)
    ELSE 0

C10_NoSnippetsSignal ==
    error = "none" =>
        /\ Len(snippet_out) = Len(selected_patterns)
        /\ \A k \in 1..Len(selected_patterns) :
              snippet_out[k].no_snippets <=> SnippetCount(selected_patterns[k]) = 0

====
